---- MODULE Spec2Model ----
(***************************************************************************)
(* SelectCommand of djangae's App Engine backend (commands.py): the        *)
(* constructor (projection analysis and where-tree normalisation) and      *)
(* execute() (query building, multi-query expansion, fetch).               *)
(*                                                                         *)
(* Leaf values are the values after connection.ops.prep_lookup_value; the  *)
(* datastore's Query object is the dict it is in the SDK: a filter string  *)
(* "<column> <op>" mapped to one value.                                    *)
(***************************************************************************)
EXTENDS Integers, Sequences, FiniteSets, TLC

VARIABLES
    pc,        \* "new" | "constructed" | "failed" | "executed" | "exec_failed"
    args,      \* the constructor's arguments: query, keys_only, all_fields
    self,      \* the SelectCommand's fields
    built,     \* execute()'s local `query` as it is before the expansion
    registry,  \* djangae.indexing's special indexes of the model: <<column, op>>
    calls,     \* calls made to the collaborators, in order
    err        \* the exception raised, "none" when there is none

vars == <<pc, args, self, built, registry, calls, err>>

\* ------------------------------------------------------------------ bounds

MaxVal == 2
MaxChildren == 2

\* ------------------------------------------------------------------ values

None == [t |-> "none", v |-> <<>>, s |-> ""]
IntVal(n) == [t |-> "int", v |-> <<n>>, s |-> ""]
ListVal(xs) == [t |-> "list", v |-> xs, s |-> ""]
StrVal(str) == [t |-> "str", v |-> <<>>, s |-> str]

IsList(value) == value.t = "list"

\* list(value): the elements of a list value, each a value of its own
ListItems(value) == [i \in 1..Len(value.v) |-> IntVal(value.v[i])]

\* ------------------------------------------------------------------ the model classes

Field(column, db_type, primary_key) ==
    [column |-> column, db_type |-> db_type, primary_key |-> primary_key]

IndexedFields == <<Field("id", "integer", TRUE), Field("a", "integer", FALSE),
                   Field("b", "integer", FALSE)>>

TextFields == Append(IndexedFields, Field("t", "text", FALSE))

Parent(db_table, abstract) == [db_table |-> db_table, abstract |-> abstract]

\* an entry of an ordering: "-name" is Order(name, TRUE)
Order(name, descending) == [name |-> name, descending |-> descending]

\* the model's unique combinations, as get_uniques_from_model gives them
Uniques == <<(<<"a">>), <<"a", "b">>>>

ModelClass(name, fields, parents, proxy, db_table, ordering) ==
    [name |-> name, fields |-> fields, parents |-> parents, proxy |-> proxy,
     db_table |-> db_table, ordering |-> ordering, uniques |-> Uniques]

PlainModel == ModelClass("Plain", IndexedFields, <<>>, FALSE, "plain", <<>>)
TextModel == ModelClass("Text", TextFields, <<>>, FALSE, "text", <<Order("id", TRUE)>>)
ChildModel ==
    ModelClass("Child", IndexedFields, <<Parent("parent", FALSE)>>, FALSE, "child",
               <<Order("a", FALSE)>>)
ProxyModel ==
    ModelClass("Proxy", IndexedFields, <<Parent("parent", FALSE)>>, TRUE, "parent", <<>>)
MixinModel ==
    ModelClass("Mixin", IndexedFields, <<Parent("mixin", TRUE)>>, FALSE, "mixed", <<>>)

Columns(model) == [i \in 1..Len(model.fields) |-> model.fields[i].column]

\* opts.pk.column
PkColumn(model) ==
    model.fields[CHOOSE i \in 1..Len(model.fields) : model.fields[i].primary_key].column

NoField == Field("", "", FALSE)

get_field_from_column(model, column) ==
    IF \E i \in 1..Len(model.fields) : model.fields[i].column = column
    THEN LET first == CHOOSE i \in 1..Len(model.fields) :
                          /\ model.fields[i].column = column
                          /\ \A j \in 1..(i - 1) : model.fields[j].column # column
         IN model.fields[first]
    ELSE NoField

IsPrimaryKey(model, column) == get_field_from_column(model, column).primary_key

\* ------------------------------------------------------------------ where trees

Leaf(col, op, value) == [kind |-> "leaf", col |-> col, op |-> op, value |-> value]

Node(negated, connector, children) ==
    [kind |-> "node", negated |-> negated, connector |-> connector, children |-> children]

Triple(col, op, value) == [col |-> col, op |-> op, value |-> value]

\* OPERATORS_MAP.get(op): "" stands for None (also the answer for an unknown op)
OPERATORS_MAP(op) ==
    CASE op = "exact" -> "="
      [] op = "gt" -> ">"
      [] op = "gte" -> ">="
      [] op = "lt" -> "<"
      [] op = "lte" -> "<="
      [] OTHER -> ""

\* ------------------------------------------------------------------ __init__

NewSelf ==
    [ordering |-> <<>>, queried_fields |-> <<>>, pk_col |-> "", is_count |-> FALSE,
     keys_only |-> FALSE, included_pks |-> <<>>, excluded_pks |-> <<>>,
     has_inequality_filter |-> FALSE, all_filters |-> <<>>, results |-> [kind |-> "None"],
     query_can_never_return_results |-> FALSE, projection |-> {}, where |-> <<>>,
     query |-> [multi |-> FALSE, queries |-> <<>>, ordering |-> <<>>],
     query_done |-> FALSE, aggregate_type |-> "None"]

Ordering(query) ==
    IF ~query.default_ordering THEN query.order_by
    ELSE IF query.order_by # <<>> THEN query.order_by ELSE query.model.ordering

QueriedFields(query, keys_only, all_fields) ==
    LET asked == IF keys_only THEN <<PkColumn(query.model)>>
                 ELSE IF ~all_fields THEN query.select ELSE <<>>
    IN IF asked = <<>> THEN Columns(query.model) ELSE asked

\* the loop over the queried fields: the pk is skipped, a bytes or text field
\* empties the list and stops the loop, a column of another table trips the
\* assert (after the debugger call left before it)
RECURSIVE ProjectionLoop(_, _, _, _)
ProjectionLoop(model, queried, i, acc) ==
    IF i > Len(queried) THEN [fields |-> acc, error |-> "none"]
    ELSE IF queried[i] = PkColumn(model) THEN ProjectionLoop(model, queried, i + 1, acc)
    ELSE LET f == get_field_from_column(model, queried[i])
         IN IF f = NoField THEN [fields |-> acc, error |-> "AssertionError"]
            ELSE IF f.db_type \in {"bytes", "text"} THEN [fields |-> <<>>, error |-> "none"]
            ELSE ProjectionLoop(model, queried, i + 1, Append(acc, queried[i]))

ProjectionFields(model, queried, all_fields) ==
    IF all_fields THEN [fields |-> <<>>, error |-> "none"]
    ELSE ProjectionLoop(model, queried, 1, <<>>)

\* list(set(projection_fields)) or None, None again when the model has parents:
\* the empty set stands for None
Projection(model, fields) ==
    IF model.parents # <<>> THEN {} ELSE {fields[i] : i \in 1..Len(fields)}

\* ---- parse_where_and_check_projection

FlipNegated_Sticky(negated, where) == negated \/ where.negated

FlipNegated(negated, where) == IF where.negated THEN ~negated ELSE negated

\* the test before `raise DatabaseError("Only AND filters are supported")`. The
\* module binds no name DatabaseError, so what leaves the raise statement is a
\* NameError; err records the place, "UnsupportedCombinator".
ConnectorRejected(negated, where) == ~negated /\ where.connector # "AND"

DisablesProjection_ExactOnly(projection, col, op) ==
    projection # {} /\ col \in projection /\ op = "exact"

DisablesProjection(projection, col, op) ==
    projection # {} /\ col \in projection /\ op \in {"exact", "in", "isnull"}

NeverReturnsResults_NullOnly(op, value) == value = None /\ op = "exact"

NeverReturnsResults(op, value) == (value = None /\ op = "exact") \/ op = "isnull"

NegatedLeaf(ctx, leaf, is_pk) ==
    LET excluded == IF leaf.op \in {"exact", "in"} /\ is_pk
                    THEN Append(ctx.excluded_pks, leaf.value) ELSE ctx.excluded_pks
    IN IF leaf.op = "exact"
       THEN IF ctx.has_inequality_filter
            THEN [ctx EXCEPT !.excluded_pks = excluded, !.error = "MultipleInequality"]
            ELSE [ctx EXCEPT !.excluded_pks = excluded,
                             !.result = Append(@, Triple(leaf.col, "gt_and_lt", leaf.value)),
                             !.has_inequality_filter = TRUE]
       ELSE [ctx EXCEPT !.excluded_pks = excluded, !.error = "UnsupportedNegatedLookup"]

PlainLeaf(ctx, leaf, is_pk) ==
    LET never == is_pk /\ NeverReturnsResults(leaf.op, leaf.value)
        included ==
            IF is_pk /\ ~never /\ leaf.op \in {"exact", "in"}
            THEN IF IsList(leaf.value) THEN ctx.included_pks \o ListItems(leaf.value)
                 ELSE Append(ctx.included_pks, leaf.value)
            ELSE ctx.included_pks
    IN [ctx EXCEPT !.query_can_never_return_results = @ \/ never,
                   !.included_pks = included,
                   !.result = Append(@, Triple(leaf.col, leaf.op, leaf.value))]

ParseLeaf(ctx, leaf, negated, model) ==
    LET c1 == IF DisablesProjection(ctx.projection, leaf.col, leaf.op)
              THEN [ctx EXCEPT !.projection = {}] ELSE ctx
        is_pk == IsPrimaryKey(model, leaf.col)
    IN IF negated THEN NegatedLeaf(c1, leaf, is_pk) ELSE PlainLeaf(c1, leaf, is_pk)

RECURSIVE ParseNode(_, _, _, _)
RECURSIVE ParseChildren(_, _, _, _, _)

ParseChildren(ctx, children, i, negated, model) ==
    IF i > Len(children) \/ ctx.error # "none" THEN ctx
    ELSE LET child == children[i]
             next == IF child.kind = "leaf" THEN ParseLeaf(ctx, child, negated, model)
                     ELSE ParseNode(ctx, child, negated, model)
         IN ParseChildren(next, children, i + 1, negated, model)

ParseNode(ctx, where, negated, model) ==
    LET neg == FlipNegated(negated, where)
    IN IF ConnectorRejected(neg, where) THEN [ctx EXCEPT !.error = "UnsupportedCombinator"]
       ELSE ParseChildren(ctx, where.children, 1, neg, model)

ParseContext(projection) ==
    [result |-> <<>>, projection |-> projection, included_pks |-> <<>>,
     excluded_pks |-> <<>>, has_inequality_filter |-> FALSE,
     query_can_never_return_results |-> FALSE, error |-> "none"]

parse_where_and_check_projection(where, projection, model) ==
    ParseNode(ParseContext(projection), where, FALSE, model)

\* the pk of the queried fields becomes __key__
KeyedFields(queried, pk_col) ==
    IF \E i \in 1..Len(queried) : queried[i] = pk_col
    THEN LET pk_index == CHOOSE i \in 1..Len(queried) :
                             /\ queried[i] = pk_col
                             /\ \A j \in 1..(i - 1) : queried[j] # pk_col
         IN [queried EXCEPT ![pk_index] = "__key__"]
    ELSE queried

Construct ==
    /\ pc = "new"
    /\ LET query == args.query
           model == query.model
           queried == QueriedFields(query, args.keys_only, args.all_fields)
           proj == ProjectionFields(model, queried, args.all_fields)
           parsed == parse_where_and_check_projection(
                         query.where, Projection(model, proj.fields), model)
           keyed == KeyedFields(queried, PkColumn(model))
       IN IF proj.error # "none"
          THEN /\ pc' = "failed"
               /\ err' = proj.error
               /\ self' = self
          ELSE IF parsed.error # "none"
          THEN /\ pc' = "failed"
               /\ err' = parsed.error
               /\ self' = self
          ELSE /\ pc' = "constructed"
               /\ err' = "none"
               /\ self' = [NewSelf EXCEPT
                      !.ordering = Ordering(query),
                      !.queried_fields = keyed,
                      !.pk_col = PkColumn(model),
                      !.is_count = query.aggregates,
                      !.keys_only = (keyed # queried /\ Len(keyed) = 1),
                      !.included_pks = parsed.included_pks,
                      !.excluded_pks = parsed.excluded_pks,
                      !.has_inequality_filter = parsed.has_inequality_filter,
                      !.query_can_never_return_results = parsed.query_can_never_return_results,
                      !.projection = parsed.projection,
                      !.where = parsed.result]
    /\ UNCHANGED <<args, built, registry, calls>>

\* ------------------------------------------------------------------ the collaborators

\* datastore.Query(kind, projection=...): a dict of filters, here the set of its
\* items <<column, op, value>>, which holds one value per "<column> <op>"
Query(kind, projection) == [kind |-> kind, projection |-> projection, filters |-> {}]

NoQuery == Query("", {})

\* query["<column> <op>"] = value
SetFilter(query, column, op, value) ==
    [query EXCEPT !.filters =
        {f \in @ : ~(f[1] = column /\ f[2] = op)} \cup {<<column, op, value>>}]

\* new_query.update(query)
Update(new_query, query) ==
    [new_query EXCEPT !.filters =
        {f \in @ : ~(\E g \in query.filters : g[1] = f[1] /\ g[2] = f[2])}
            \cup query.filters]

REQUIRES_SPECIAL_INDEXES == {"iexact", "year"}

\* "Add the index if we can (e.g. on dev_appserver)"
add_special_index(reg, column, op, can_add) ==
    IF can_add THEN reg \cup {<<column, op>>} ELSE reg

special_indexes_for_column(reg, column) == {e[2] : e \in {x \in reg : x[1] = column}}

indexed_column_name(op, column) == "_idx_" \o op \o "_" \o column

prep_value_for_query(op, value) == [value EXCEPT !.t = op]

\* ------------------------------------------------------------------ execute

InheritanceRoot(model) ==
    LET concrete == {i \in 1..Len(model.parents) : ~model.parents[i].abstract}
    IN IF concrete # {} THEN model.parents[Len(model.parents)].db_table
       ELSE model.db_table

HasConcreteParents(model) == \E i \in 1..Len(model.parents) : ~model.parents[i].abstract

\* the query execute() starts from: the root's table, the projection, the class
InitialQuery(model, projection) ==
    LET query == Query(InheritanceRoot(model), projection)
    IN IF HasConcreteParents(model) /\ ~model.proxy
       THEN SetFilter(query, "class", "=", StrVal(model.db_table))
       ELSE query

MissingIndex_Never(reg, column, op) == FALSE

\* the index is still missing after the attempt to add it
MissingIndex(reg, column, op) == op \notin special_indexes_for_column(reg, column)

\* one round of the loop over self.where
FilterStep(st, pred, pk_col, can_add) ==
    LET column == IF pred.col = pk_col THEN "__key__" ELSE pred.col
        final_op == OPERATORS_MAP(pred.op)
    IN IF final_op # ""
       THEN [st EXCEPT !.query = SetFilter(@, column, final_op, pred.value)]
       ELSE IF pred.op \in REQUIRES_SPECIAL_INDEXES
       THEN LET reg == add_special_index(st.registry, column, pred.op, can_add)
                s1 == [st EXCEPT !.registry = reg,
                                 !.calls = Append(@, "add_special_index")]
            IN IF MissingIndex(reg, column, pred.op)
               THEN [s1 EXCEPT !.error = "MissingIndex"]
               ELSE [s1 EXCEPT !.query =
                        SetFilter(@, indexed_column_name(pred.op, column), "=",
                                  prep_value_for_query(pred.op, pred.value))]
       ELSE IF pred.op \in {"in", "gt_and_lt"}
       THEN [st EXCEPT !.combined_filters = Append(@, Triple(column, pred.op, pred.value))]
       ELSE IF pred.op = "isnull"
       THEN [st EXCEPT !.query = SetFilter(@, column, "=", None)]
       ELSE [st EXCEPT !.error = "NotImplementedError"]

RECURSIVE FilterLoop(_, _, _, _, _)
FilterLoop(st, where, i, pk_col, can_add) ==
    IF i > Len(where) \/ st.error # "none" THEN st
    ELSE FilterLoop(FilterStep(st, where[i], pk_col, can_add), where, i + 1, pk_col, can_add)

OrderingPairs(ordering, pk_col) ==
    [i \in 1..Len(ordering) |->
        <<IF ordering[i].name = pk_col THEN "__key__" ELSE ordering[i].name,
          IF ordering[i].descending THEN "DESCENDING" ELSE "ASCENDING">>]

\* the alternatives of a combined filter, as filter items
Alternatives(f) ==
    IF f.op = "in"
    THEN [i \in 1..Len(f.value.v) |-> <<f.col, "=", IntVal(f.value.v[i])>>]
    ELSE <<(<<f.col, "<", f.value>>), <<f.col, ">", f.value>>>>

\* new_query = datastore.Query(self.model._meta.db_table); new_query.update(query);
\* new_query["<column> <op>"] = value
NewQuery(table, query, alt) ==
    SetFilter(Update(Query(table, {}), query), alt[1], alt[2], alt[3])

RECURSIVE ExpandOne(_, _, _, _)
ExpandOne(queries, f, table, i) ==
    IF i > Len(queries) THEN <<>>
    ELSE [k \in 1..Len(Alternatives(f)) |-> NewQuery(table, queries[i], Alternatives(f)[k])]
             \o ExpandOne(queries, f, table, i + 1)

RECURSIVE ExpandAll(_, _, _, _)
ExpandAll(queries, combined_filters, j, table) ==
    IF j > Len(combined_filters) THEN queries
    ELSE ExpandAll(ExpandOne(queries, combined_filters[j], table, 1),
                   combined_filters, j + 1, table)

\* datastore.MultiQuery(queries, ordering), or the one query with its Order
CompiledQuery(query, combined_filters, table, ordering) ==
    IF combined_filters # <<>>
    THEN [multi |-> TRUE, queries |-> ExpandAll(<<query>>, combined_filters, 1, table),
          ordering |-> ordering]
    ELSE [multi |-> FALSE, queries |-> <<query>>, ordering |-> ordering]

\* ---- _do_fetch

\* the cache lookups of the unique combinations the exact filters cover, in turn
RECURSIVE CacheLoop(_, _, _, _, _)
CacheLoop(model, lookup, i, found, cache_hit) ==
    IF i > Len(model.uniques) THEN found
    ELSE LET fields == model.uniques[i]
             covered == \A k \in 1..Len(fields) : \E x \in lookup : x[1] = fields[k]
         IN CacheLoop(model, lookup, i + 1,
                      IF covered
                      THEN [entity |-> cache_hit,
                            calls |-> Append(found.calls,
                                IF cache_hit THEN "cache.get:hit" ELSE "cache.get:miss")]
                      ELSE found,
                      cache_hit)

\* lookup = {x[0]: x[2] for x in exact_filters}: a later filter replaces an earlier
Lookup(all_filters) ==
    {<<all_filters[i].col, all_filters[i].value>> : i \in
        {i \in 1..Len(all_filters) :
            /\ all_filters[i].op = "="
            /\ \A j \in (i + 1)..Len(all_filters) :
                   ~(all_filters[j].op = "=" /\ all_filters[j].col = all_filters[i].col)}}

EntityFromCache(model, all_filters, cache_hit) ==
    IF all_filters # <<>>
    THEN CacheLoop(model, Lookup(all_filters), 1, [entity |-> FALSE, calls |-> <<>>], cache_hit)
    ELSE [entity |-> FALSE, calls |-> <<>>]

\* _run_query: the call made on self.query
RunQuery(aggregate_type) == IF aggregate_type = "None" THEN "Query.Run" ELSE "Query.Count"

AggregateType(is_count) == IF is_count THEN "count" ELSE "None"

DoFetch(me, model, cache_hit) ==
    IF me.query.multi
    THEN [self |-> [me EXCEPT !.results = [kind |-> RunQuery(me.aggregate_type)],
                              !.query_done = TRUE],
          calls |-> <<RunQuery(me.aggregate_type)>>]
    ELSE LET cached == EntityFromCache(model, me.all_filters, cache_hit)
         IN IF ~cached.entity
            THEN [self |-> [me EXCEPT !.results = [kind |-> RunQuery(me.aggregate_type)]],
                  calls |-> Append(cached.calls, RunQuery(me.aggregate_type))]
            ELSE [self |-> [me EXCEPT !.results = [kind |-> "cached"]],
                  calls |-> cached.calls]

ExecuteWith(can_add, cache_hit) ==
    /\ pc = "constructed"
    /\ IF self.query_can_never_return_results
       THEN /\ self' = [self EXCEPT !.results = [kind |-> "empty"]]
            /\ pc' = "executed"
            /\ UNCHANGED <<built, registry, calls, err>>
       ELSE LET model == args.query.model
                start == [query |-> InitialQuery(model, self.projection),
                          combined_filters |-> <<>>, registry |-> registry,
                          calls |-> calls, error |-> "none"]
                st == FilterLoop(start, self.where, 1, self.pk_col, can_add)
                compiled == CompiledQuery(st.query, st.combined_filters, model.db_table,
                                          OrderingPairs(self.ordering, PkColumn(model)))
                fetched == DoFetch([self EXCEPT !.query = compiled,
                                                !.results = [kind |-> "None"],
                                                !.query_done = FALSE,
                                                !.aggregate_type = AggregateType(self.is_count)],
                                   model, cache_hit)
            IN /\ registry' = st.registry
               /\ IF st.error # "none"
                  THEN /\ pc' = "exec_failed"
                       /\ err' = st.error
                       /\ calls' = st.calls
                       /\ UNCHANGED <<self, built>>
                  ELSE /\ pc' = "executed"
                       /\ err' = "none"
                       /\ built' = st.query
                       /\ self' = fetched.self
                       /\ calls' = st.calls \o fetched.calls
    /\ UNCHANGED args

Execute == \E can_add \in BOOLEAN, cache_hit \in BOOLEAN : ExecuteWith(can_add, cache_hit)

Next == Construct \/ Execute

\* ------------------------------------------------------------------ the queries checked

SeqsUpTo(S, n) == UNION {[1..k -> S] : k \in 0..n}

Ranges == {[i \in 1..(hi - lo + 1) |-> lo + i - 1] : lo \in 1..MaxVal, hi \in 1..MaxVal}
              \ {<<>>}

\* the model's own ordering, or an explicit one that replaces it
Orderings ==
    {[order_by |-> <<>>, default_ordering |-> TRUE],
     [order_by |-> <<Order("id", TRUE)>>, default_ordering |-> FALSE]}

QueryOf(model, where, select, aggregates, ord) ==
    [model |-> model, where |-> where, select |-> select, order_by |-> ord.order_by,
     default_ordering |-> ord.default_ordering, aggregates |-> aggregates]

DefaultOrdering == [order_by |-> <<>>, default_ordering |-> TRUE]

StartOf(a, reg) ==
    /\ pc = "new"
    /\ args = a
    /\ self = NewSelf
    /\ built = NoQuery
    /\ registry = reg
    /\ calls = <<>>
    /\ err = "none"

\* flat conjunctions of leaves and negated equalities, every kind of operator
ExecLeaves ==
    {Leaf("a", "exact", IntVal(v)) : v \in 1..MaxVal}
        \cup {Leaf("a", "in", ListVal(r)) : r \in Ranges}
        \cup {Leaf("id", "exact", None), Leaf("id", "isnull", IntVal(1)),
              Leaf("b", "gt", IntVal(1)), Leaf("a", "iexact", IntVal(1)),
              Leaf("b", "range", IntVal(1))}

ExecItems ==
    ExecLeaves \cup {Node(TRUE, "AND", <<Leaf(c, "exact", IntVal(1))>>) : c \in {"a", "b"}}

ExecArgs ==
    {[query |-> QueryOf(m, Node(FALSE, "AND", ch), sel, agg, ord),
      keys_only |-> FALSE, all_fields |-> FALSE] :
        m \in {PlainModel, ChildModel},
        ch \in SeqsUpTo(ExecItems, MaxChildren),
        sel \in {<<>>, <<"b">>},
        agg \in BOOLEAN,
        ord \in Orderings}

Init == \E a \in ExecArgs, reg \in {{}, {<<"a", "iexact">>}} : StartOf(a, reg)

Spec == Init /\ [][Next]_vars

\* nested combinators of either connector, negated or not, over a few leaves
NormLeaves ==
    {Leaf("a", "exact", IntVal(1)), Leaf("b", "gt", IntVal(1)),
     Leaf("a", "in", ListVal(<<1, 2>>))}

Combinators(children) ==
    {Node(n, c, ch) : n \in BOOLEAN, c \in {"AND", "OR"}, ch \in children}

NormItems ==
    NormLeaves
        \cup Combinators({<<l>> : l \in NormLeaves})
        \cup Combinators({<<x>> : x \in Combinators({<<Leaf("a", "exact", IntVal(1))>>})})

NormArgs ==
    {[query |-> QueryOf(PlainModel, w, <<"b">>, FALSE, DefaultOrdering),
      keys_only |-> FALSE, all_fields |-> FALSE] :
        w \in Combinators(SeqsUpTo(NormItems, MaxChildren))}

InitNorm == \E a \in NormArgs : StartOf(a, {})

SpecNorm == InitNorm /\ [][Next]_vars

\* every way of asking for columns, on every kind of model
ProjLeaves ==
    {Leaf("a", "exact", IntVal(1)), Leaf("a", "gt", IntVal(1)),
     Leaf("a", "in", ListVal(<<1>>)), Leaf("a", "isnull", IntVal(1)),
     Leaf("b", "exact", IntVal(1)), Leaf("id", "exact", IntVal(1)),
     Leaf("a", "iexact", IntVal(1))}

Selects == {<<>>, <<"a">>, <<"id", "a">>, <<"a", "b", "a">>, <<"a", "t">>, <<"id">>}

ProjArgs ==
    {[query |-> QueryOf(m, w, sel, FALSE, DefaultOrdering), keys_only |-> k, all_fields |-> f] :
        m \in {PlainModel, TextModel, ChildModel, ProxyModel, MixinModel},
        w \in Combinators(SeqsUpTo(ProjLeaves, MaxChildren)),
        sel \in Selects, k \in BOOLEAN, f \in BOOLEAN}

InitProj == \E a \in {x \in ProjArgs : (x.keys_only \/ x.all_fields) => x.query.select = <<>>} :
                StartOf(a, {})

SpecProj == InitProj /\ [][Next]_vars

\* ------------------------------------------------------------------ what the claims speak of

NoLeaf == Leaf("", "", None)

\* The where tree in the order it is walked: each combinator, then its children.
\* `odd` tells whether the number of negated combinators from the root down to
\* the node (the node included) or down to the leaf is odd.
RECURSIVE Walk(_, _)
RECURSIVE WalkChildren(_, _, _)

WalkChildren(children, i, n) ==
    IF i > Len(children) THEN <<>>
    ELSE (IF children[i].kind = "leaf"
          THEN <<[kind |-> "leaf", odd |-> n % 2 = 1, connector |-> "", leaf |-> children[i]]>>
          ELSE Walk(children[i], n))
             \o WalkChildren(children, i + 1, n)

Walk(where, above) ==
    LET n == above + (IF where.negated THEN 1 ELSE 0)
    IN <<[kind |-> "node", odd |-> n % 2 = 1, connector |-> where.connector,
          leaf |-> NoLeaf]>>
           \o WalkChildren(where.children, 1, n)

Trail == Walk(args.query.where, 0)

IsLeafEvent(e) == e.kind = "leaf"

LeafAt(i) == Trail[i].kind = "leaf"
NegatedLeafAt(i) == LeafAt(i) /\ Trail[i].odd
PlainLeafAt(i) == LeafAt(i) /\ ~Trail[i].odd

\* a combinator that is not AND while the parity at it is even
BadNodeAt(i) == Trail[i].kind = "node" /\ ~Trail[i].odd /\ Trail[i].connector # "AND"

Constructed == pc \in {"constructed", "executed", "exec_failed"}

Ran == pc = "executed" /\ ~self.query_can_never_return_results

Count(seq, x) == Cardinality({i \in DOMAIN seq : seq[i] = x})

IsCacheGet(call) == call \in {"cache.get:hit", "cache.get:miss"}
IsStoreCall(call) == call \in {"Query.Run", "Query.Count"}

CacheGets == Cardinality({i \in DOMAIN calls : IsCacheGet(calls[i])})
StoreCalls == Cardinality({i \in DOMAIN calls : IsStoreCall(calls[i])})

KeyColumn(col) == IF col = PkColumn(args.query.model) THEN "__key__" ELSE col

\* ------------------------------------------------------------------ C1

RangeOps == {"gt", "gte", "lt", "lte"}

TwoInequalities ==
    \E i \in DOMAIN Trail, j \in DOMAIN Trail :
        /\ PlainLeafAt(i) /\ Trail[i].leaf.op \in RangeOps
        /\ NegatedLeafAt(j) /\ Trail[j].leaf.op = "exact"
        /\ Trail[i].leaf.col # Trail[j].leaf.col

\* nothing but the two inequalities could make the constructor fail
NothingElseFails ==
    /\ \A i \in DOMAIN Trail : ~BadNodeAt(i)
    /\ Cardinality({i \in DOMAIN Trail : NegatedLeafAt(i)}) = 1

\* C1: a tree with a range predicate on one column and a negated equality on
\* another yields no where-sequence: the constructor fails, and with the
\* "one inequality filter per query" error when nothing else is wrong.
C1_TwoInequalitiesRejected ==
    (pc # "new" /\ TwoInequalities) =>
        /\ pc = "failed"
        /\ NothingElseFails => err = "MultipleInequality"

\* ------------------------------------------------------------------ C2

CoversUnique ==
    \E u \in DOMAIN args.query.model.uniques :
        \A k \in DOMAIN args.query.model.uniques[u] :
            \E i \in DOMAIN self.where :
                /\ self.where[i].op = "exact"
                /\ self.where[i].col = args.query.model.uniques[u][k]

\* C2: a single physical query whose equalities cover a unique combination makes
\* exactly one cache lookup, before any store call; a hit makes no store call
\* and gives the cached entity, a miss is followed by exactly one store call.
C2_OneCacheLookupFirst ==
    (Ran /\ ~self.query.multi /\ CoversUnique) =>
        /\ CacheGets = 1
        /\ \A i \in DOMAIN calls, j \in DOMAIN calls :
               (IsCacheGet(calls[i]) /\ IsStoreCall(calls[j])) => i < j
        /\ Count(calls, "cache.get:hit") = 1
               => (StoreCalls = 0 /\ self.results.kind = "cached")
        /\ Count(calls, "cache.get:miss") = 1 => StoreCalls = 1

\* ------------------------------------------------------------------ C3

IsExpansion(pred) == pred.op \in {"in", "gt_and_lt"}

AlternativesOf(pred) ==
    IF pred.op = "in"
    THEN {<<KeyColumn(pred.col), "=", IntVal(pred.value.v[k])>> : k \in DOMAIN pred.value.v}
    ELSE {<<KeyColumn(pred.col), "<", pred.value>>, <<KeyColumn(pred.col), ">", pred.value>>}

AlternativeCount(pred) == IF pred.op = "in" THEN Len(pred.value.v) ELSE 2

RECURSIVE ProductFrom(_, _)
ProductFrom(where, i) ==
    IF i > Len(where) THEN 1
    ELSE (IF IsExpansion(where[i]) THEN AlternativeCount(where[i]) ELSE 1)
             * ProductFrom(where, i + 1)

\* C3: the physical queries are the Cartesian product of the alternatives of the
\* expansion-requiring predicates: as many members as the product of the numbers
\* of alternatives, each with an alternative of every such predicate (a member
\* may hold a second one only where it is another predicate's own constraint).
C3_CartesianProduct ==
    Ran =>
        /\ Len(self.query.queries) = ProductFrom(self.where, 1)
        /\ \A m \in DOMAIN self.query.queries, i \in DOMAIN self.where :
               IsExpansion(self.where[i]) =>
                   AlternativesOf(self.where[i]) \cap self.query.queries[m].filters # {}

\* ------------------------------------------------------------------ C4

NullPrimaryKey ==
    \E i \in DOMAIN Trail :
        /\ PlainLeafAt(i)
        /\ Trail[i].leaf.col = PkColumn(args.query.model)
        /\ \/ Trail[i].leaf.op = "exact" /\ Trail[i].leaf.value = None
           \/ Trail[i].leaf.op = "isnull"

\* C4: with a pk = null or pk is-null predicate not under negation, execute()
\* gives the empty result, builds no query and calls neither store nor cache.
C4_NullPrimaryKeyTouchesNothing ==
    (NullPrimaryKey /\ pc \in {"executed", "exec_failed"}) =>
        /\ pc = "executed"
        /\ self.results.kind = "empty"
        /\ calls = <<>>
        /\ built = NoQuery
        /\ self.query.queries = <<>>

C4_Witness ==
    /\ pc = "executed"
    /\ NullPrimaryKey
    /\ args.query.aggregates
    /\ \E i \in DOMAIN Trail : LeafAt(i) /\ Trail[i].leaf.op = "in"

\* ------------------------------------------------------------------ C5

ColumnSet(seq) == {seq[i] : i \in DOMAIN seq}

\* the columns asked for: the pk alone for keys_only, else the selected columns,
\* else (nothing selected, or all_fields) every column of the model
Requested ==
    IF args.keys_only THEN {PkColumn(args.query.model)}
    ELSE IF args.all_fields \/ args.query.select = <<>>
    THEN ColumnSet(Columns(args.query.model))
    ELSE ColumnSet(args.query.select)

Candidates == Requested \ {PkColumn(args.query.model)}

HasUnindexedCandidate ==
    \E c \in Candidates : get_field_from_column(args.query.model, c).db_type \in {"bytes", "text"}

\* a leaf, negated or not, that tests a candidate column with exact, in or isnull
HasEqualityOnCandidate ==
    \E i \in DOMAIN Trail :
        /\ LeafAt(i)
        /\ Trail[i].leaf.col \in Candidates
        /\ Trail[i].leaf.op \in {"exact", "in", "isnull"}

NoProjectionAsClaimed ==
    \/ Candidates = {}
    \/ HasUnindexedCandidate
    \/ args.query.model.parents # <<>>
    \/ HasEqualityOnCandidate

\* C5 as stated: the projection is none exactly when there is no candidate, or a
\* candidate is bytes or text, or the model has parents, or a candidate is the
\* target of an exact, in or isnull predicate; otherwise it is the candidates.
C5_ProjectionAsClaimed ==
    Constructed =>
        /\ self.projection = {} <=> NoProjectionAsClaimed
        /\ ~NoProjectionAsClaimed => self.projection = Candidates

\* C5 as amended: the same, with the all_fields mode as one more reason for no
\* projection.
C5_ProjectionRule ==
    Constructed =>
        /\ self.projection = {} <=> (args.all_fields \/ NoProjectionAsClaimed)
        /\ ~(args.all_fields \/ NoProjectionAsClaimed) => self.projection = Candidates

C5_Witness ==
    /\ pc = "constructed"
    /\ self.projection = {"a", "b"}
    /\ args.query.select = <<"a", "b", "a">>
    /\ \E i \in DOMAIN Trail :
           LeafAt(i) /\ Trail[i].leaf.col = "a" /\ Trail[i].leaf.op = "gt"

\* ------------------------------------------------------------------ C6

NoBadNode == \A i \in DOMAIN Trail : ~BadNodeAt(i)

\* C6: where a negated leaf is what decides (no rejected combinator, one negated
\* leaf), the "unsupported negated lookup" error is raised exactly when the
\* leaf's operator is neither exact nor in.
C6_NegatedOperators ==
    \A i \in DOMAIN Trail :
        (/\ pc # "new"
         /\ NoBadNode
         /\ NegatedLeafAt(i)
         /\ \A j \in DOMAIN Trail : NegatedLeafAt(j) => j = i)
            => (err = "UnsupportedNegatedLookup" <=> Trail[i].leaf.op \notin {"exact", "in"})

\* ------------------------------------------------------------------ C7

\* a leaf at which the walk stops: a negated leaf that is not an equality, or a
\* negated equality after another one
LeafFailsAt(j) ==
    /\ NegatedLeafAt(j)
    /\ \/ Trail[j].leaf.op # "exact"
       \/ \E k \in 1..(j - 1) : NegatedLeafAt(k) /\ Trail[k].leaf.op = "exact"

NormalizedLeaf(e) ==
    IF e.odd THEN Triple(e.leaf.col, "gt_and_lt", e.leaf.value)
    ELSE Triple(e.leaf.col, e.leaf.op, e.leaf.value)

\* the where-sequence of a tree whose leaves are negated by the parity rule
ExpectedWhere ==
    LET leaves == SelectSeq(Trail, IsLeafEvent)
    IN [i \in DOMAIN leaves |-> NormalizedLeaf(leaves[i])]

SpecialEntries ==
    {<<KeyColumn(self.where[i].col), self.where[i].op>> :
        i \in {k \in DOMAIN self.where : self.where[k].op \in REQUIRES_SPECIAL_INDEXES}}

C9_MembersCloneInitialQuery ==
    (pc = "executed" /\ self.query.multi) =>
        \A m \in DOMAIN self.query.queries :
            /\ self.query.queries[m].kind = built.kind
            /\ self.query.queries[m].projection = built.projection
            /\ built.filters \subseteq self.query.queries[m].filters

\* ------------------------------------------------------------------ C10

Constrains(query, pred) ==
    IF IsExpansion(pred) THEN AlternativesOf(pred) \cap query.filters # {}
    ELSE IF OPERATORS_MAP(pred.op) # ""
    THEN <<KeyColumn(pred.col), OPERATORS_MAP(pred.op), pred.value>> \in query.filters
    ELSE IF pred.op = "isnull"
    THEN <<KeyColumn(pred.col), "=", None>> \in query.filters
    ELSE <<indexed_column_name(pred.op, KeyColumn(pred.col)), "=",
           prep_value_for_query(pred.op, pred.value)>> \in query.filters

\* C10: every predicate of the where-sequence constrains every query issued.
C10_EveryPredicateInEveryQuery ==
    Ran =>
        \A m \in DOMAIN self.query.queries, i \in DOMAIN self.where :
            Constrains(self.query.queries[m], self.where[i])

====
